---- MODULE Spec2Model ----
(***************************************************************************)
(* Model of the notes API of src/main.py: an in-memory list notas_db of    *)
(* notes and the FastAPI handlers that read and change it.                 *)
(*                                                                         *)
(* A Python str is a sequence of one-character strings, so that            *)
(* str.lower() and str.strip() are computed character by character.        *)
(* Every handler is an "async def" without an await, so the event loop     *)
(* runs each handler from its first line to its return or raise without    *)
(* interleaving another handler: one action per handler call.              *)
(***************************************************************************)
EXTENDS Integers, Sequences, FiniteSets, TLC

VARIABLES notas_db, reloj, ultima, pendientes, respuestas

vars == <<notas_db, reloj, ultima, pendientes, respuestas>>

(* ------------------------------ bounds --------------------------------- *)

\* Largest number of notes the model lets notas_db hold.
MaxNotas == 2

\* Largest reading of the clock (datetime.now()) the model explores.
MaxReloj == 1

\* Clients that send requests concurrently in the race specification.
Clientes == {"c1", "c2", "c3"}

(* --------------------------- Python strings ---------------------------- *)

\* str.lower() on one character, over the letters the model uses.
LowerChar(c) ==
    CASE c = "A" -> "a"
      [] c = "B" -> "b"
      [] c = "G" -> "g"
      [] c = "W" -> "w"
      [] c = "X" -> "x"
      [] OTHER -> c

\* str.lower()
lower(s) == [i \in 1..Len(s) |-> LowerChar(s[i])]

\* The characters str.strip() removes.
Whitespace == {" ", "\t"}

RECURSIVE lstrip(_)
lstrip(s) ==
    IF s = <<>> THEN s
    ELSE IF Head(s) \in Whitespace THEN lstrip(Tail(s)) ELSE s

RECURSIVE rstrip(_)
rstrip(s) ==
    IF s = <<>> THEN s
    ELSE IF s[Len(s)] \in Whitespace THEN rstrip(SubSeq(s, 1, Len(s) - 1)) ELSE s

\* str.strip()
strip(s) == rstrip(lstrip(s))

(* ------------------------------ requests ------------------------------- *)

\* A NotaCreate request body.
NotaCreate(t, c, a, cat, imp) ==
    [titulo |-> t, contenido |-> c, autor |-> a, categoria |-> cat, importante |-> imp]

General == <<"G", "e", "n", "e", "r", "a", "l">>

\* Python's None, for an Optional[str] that is null or absent; it is no text.
None == <<"None">>

\* The request bodies the model sends.
Cuerpos ==
    { NotaCreate(<<"a">>, <<"x">>, "ana", None, FALSE),
      NotaCreate(<<"A">>, <<"x", "b">>, "luis", <<"w">>, TRUE),
      NotaCreate(<<"b">>, <<"X">>, "ana", <<"W">>, TRUE),
      NotaCreate(<<" ">>, <<"x">>, "ana", General, FALSE),
      NotaCreate(<<>>, <<>>, "luis", General, FALSE),
      NotaCreate(<<"a">>, <<" ", "\t">>, "ana", <<"w">>, TRUE) }

\* The titles the model sends as the {titulo} path parameter.
TitulosRuta == { <<"a">>, <<"A">>, <<"b">> }

\* A stored note.
Nota(t, c, a, cat, imp, fc, fa) ==
    [titulo |-> t, contenido |-> c, autor |-> a, categoria |-> cat, importante |-> imp,
     fecha_creacion |-> fc, fecha_actualizacion |-> fa]

\* Stands for "no note" and "no body" in a response or a request.
Ninguna == Nota(<<>>, <<>>, "", <<>>, FALSE, -1, -1)
SinCuerpo == NotaCreate(<<>>, <<>>, "", <<>>, FALSE)

(* ------------------------------ handlers ------------------------------- *)

\* The statistics of a response that carries none.
SinEstadisticas ==
    [total_notas |-> -1, notas_importantes |-> -1, notas_normales |-> -1, categorias |-> <<>>]

\* What a handler call produces: the list afterwards and the HTTP response,
\* whose payload is a note, a list of notes or the statistics.
Resultado(db, code, detail, nota) ==
    [db |-> db, status_code |-> code, detail |-> detail, nota |-> nota,
     lista |-> <<>>, estadisticas |-> SinEstadisticas]

\* A 200 response whose payload is a list of notes.
ResultadoLista(db, lista) ==
    [db |-> db, status_code |-> 200, detail |-> "", nota |-> Ninguna,
     lista |-> lista, estadisticas |-> SinEstadisticas]

\* An exception no handler catches: the framework answers 500.
ErrorInterno(db) == Resultado(db, 500, "Internal Server Error", Ninguna)

\* raise HTTPException(status_code, detail): the list is as the handler left it.
\* The detail texts are the source's without their accents.
HTTPException(db, code, detail) == Resultado(db, code, detail, Ninguna)

\* The duplicate scan with the titles compared as written, not lower-cased.
existe_titulo_exacto(db, titulo) ==
    \E i \in 1..Len(db) : db[i].titulo = titulo

\* The duplicate scan of crear_nota.
existe_titulo(db, titulo) ==
    \E i \in 1..Len(db) : lower(db[i].titulo) = lower(titulo)

\* POST /notas with "if not nota.contenido" for the content: no strip().
crear_nota_sin_strip(db, nota, now) ==
    IF strip(nota.titulo) = <<>>
    THEN HTTPException(db, 400, "El titulo es requerido")
    ELSE IF nota.contenido = <<>>
    THEN HTTPException(db, 400, "El contenido es requerido")
    ELSE IF existe_titulo(db, nota.titulo)
    THEN HTTPException(db, 400, "Ya existe una nota con ese titulo")
    ELSE LET nueva_nota == Nota(nota.titulo, nota.contenido, nota.autor, nota.categoria,
                                nota.importante, now, now)
         IN  Resultado(Append(db, nueva_nota), 201, "", nueva_nota)

\* POST /notas that inserts the new note at the front of the list.
crear_nota_al_frente(db, nota, now) ==
    IF strip(nota.titulo) = <<>>
    THEN HTTPException(db, 400, "El titulo es requerido")
    ELSE IF strip(nota.contenido) = <<>>
    THEN HTTPException(db, 400, "El contenido es requerido")
    ELSE IF existe_titulo(db, nota.titulo)
    THEN HTTPException(db, 400, "Ya existe una nota con ese titulo")
    ELSE LET nueva_nota == Nota(nota.titulo, nota.contenido, nota.autor, nota.categoria,
                                nota.importante, now, now)
         IN  Resultado(<<nueva_nota>> \o db, 201, "", nueva_nota)

\* POST /notas
crear_nota(db, nota, now) ==
    IF strip(nota.titulo) = <<>>
    THEN HTTPException(db, 400, "El titulo es requerido")
    ELSE IF strip(nota.contenido) = <<>>
    THEN HTTPException(db, 400, "El contenido es requerido")
    ELSE IF existe_titulo(db, nota.titulo)
    THEN HTTPException(db, 400, "Ya existe una nota con ese titulo")
    ELSE LET nueva_nota == Nota(nota.titulo, nota.contenido, nota.autor, nota.categoria,
                                nota.importante, now, now)
         IN  Resultado(Append(db, nueva_nota), 201, "", nueva_nota)

\* The index of the first note whose title matches titulo, 0 when there is none:
\* the scan "for i, nota in enumerate(notas_db): if nota.titulo.lower() == titulo.lower()".
RECURSIVE buscar_desde(_, _, _)
buscar_desde(db, titulo, i) ==
    IF i > Len(db) THEN 0
    ELSE IF lower(db[i].titulo) = lower(titulo) THEN i
    ELSE buscar_desde(db, titulo, i + 1)

buscar_indice(db, titulo) == buscar_desde(db, titulo, 1)

\* GET /notas/{titulo}
obtener_nota(db, titulo) ==
    LET i == buscar_indice(db, titulo)
    IN  IF i = 0
        THEN HTTPException(db, 404, "Nota no encontrada")
        ELSE Resultado(db, 200, "", db[i])

\* The same check with the titles compared as written, not lower-cased.
titulo_ocupado_exacto(db, titulo, nuevo) ==
    /\ nuevo # titulo
    /\ \E j \in 1..Len(db) :
          /\ db[j].titulo = nuevo
          /\ db[j].titulo # titulo

\* The same check without the exclusion of the note that is being updated.
titulo_ocupado_incluye_propia(db, titulo, nuevo) ==
    \E j \in 1..Len(db) : lower(db[j].titulo) = lower(nuevo)

\* The check of actualizar_nota that the new title is not taken by another note.
titulo_ocupado(db, titulo, nuevo) ==
    /\ lower(nuevo) # lower(titulo)
    /\ \E j \in 1..Len(db) :
          /\ lower(db[j].titulo) = lower(nuevo)
          /\ lower(db[j].titulo) # lower(titulo)

\* PUT /notas/{titulo} that writes the note before it checks the new title.
actualizar_nota_escribe_antes(db, titulo, nota_actualizada, now) ==
    LET i == buscar_indice(db, titulo)
    IN  IF i = 0
        THEN HTTPException(db, 404, "Nota no encontrada")
        ELSE LET nota_actualizada_obj ==
                     Nota(nota_actualizada.titulo, nota_actualizada.contenido,
                          nota_actualizada.autor, nota_actualizada.categoria,
                          nota_actualizada.importante, db[i].fecha_creacion, now)
                 escrita == [db EXCEPT ![i] = nota_actualizada_obj]
             IN  IF titulo_ocupado(db, titulo, nota_actualizada.titulo)
                 THEN HTTPException(escrita, 400, "Ya existe una nota con ese titulo")
                 ELSE Resultado(escrita, 200, "", nota_actualizada_obj)

\* PUT /notas/{titulo} that removes the note and appends its replacement.
actualizar_nota_al_final(db, titulo, nota_actualizada, now) ==
    LET i == buscar_indice(db, titulo)
    IN  IF i = 0
        THEN HTTPException(db, 404, "Nota no encontrada")
        ELSE IF titulo_ocupado(db, titulo, nota_actualizada.titulo)
        THEN HTTPException(db, 400, "Ya existe una nota con ese titulo")
        ELSE LET nota_actualizada_obj ==
                     Nota(nota_actualizada.titulo, nota_actualizada.contenido,
                          nota_actualizada.autor, nota_actualizada.categoria,
                          nota_actualizada.importante, db[i].fecha_creacion, now)
             IN  Resultado(Append(SubSeq(db, 1, i - 1) \o SubSeq(db, i + 1, Len(db)),
                                  nota_actualizada_obj),
                           200, "", nota_actualizada_obj)

\* PUT /notas/{titulo} with the two dates exchanged in the new note.
actualizar_nota_fechas_cambiadas(db, titulo, nota_actualizada, now) ==
    LET i == buscar_indice(db, titulo)
    IN  IF i = 0
        THEN HTTPException(db, 404, "Nota no encontrada")
        ELSE IF titulo_ocupado(db, titulo, nota_actualizada.titulo)
        THEN HTTPException(db, 400, "Ya existe una nota con ese titulo")
        ELSE LET nota_actualizada_obj ==
                     Nota(nota_actualizada.titulo, nota_actualizada.contenido,
                          nota_actualizada.autor, nota_actualizada.categoria,
                          nota_actualizada.importante, now, db[i].fecha_creacion)
             IN  Resultado([db EXCEPT ![i] = nota_actualizada_obj], 200, "",
                           nota_actualizada_obj)

\* PUT /notas/{titulo} that appends the new note and leaves the old one.
actualizar_nota_conserva_vieja(db, titulo, nota_actualizada, now) ==
    LET i == buscar_indice(db, titulo)
    IN  IF i = 0
        THEN HTTPException(db, 404, "Nota no encontrada")
        ELSE IF titulo_ocupado(db, titulo, nota_actualizada.titulo)
        THEN HTTPException(db, 400, "Ya existe una nota con ese titulo")
        ELSE LET nota_actualizada_obj ==
                     Nota(nota_actualizada.titulo, nota_actualizada.contenido,
                          nota_actualizada.autor, nota_actualizada.categoria,
                          nota_actualizada.importante, db[i].fecha_creacion, now)
             IN  Resultado(Append(db, nota_actualizada_obj), 200, "",
                           nota_actualizada_obj)

\* PUT /notas/{titulo}
actualizar_nota(db, titulo, nota_actualizada, now) ==
    LET i == buscar_indice(db, titulo)
    IN  IF i = 0
        THEN HTTPException(db, 404, "Nota no encontrada")
        ELSE IF titulo_ocupado(db, titulo, nota_actualizada.titulo)
        THEN HTTPException(db, 400, "Ya existe una nota con ese titulo")
        ELSE LET nota_actualizada_obj ==
                     Nota(nota_actualizada.titulo, nota_actualizada.contenido,
                          nota_actualizada.autor, nota_actualizada.categoria,
                          nota_actualizada.importante, db[i].fecha_creacion, now)
             IN  Resultado([db EXCEPT ![i] = nota_actualizada_obj], 200, "",
                           nota_actualizada_obj)

\* list.pop(): the list without its last element.
pop_ultimo(db, i) == SubSeq(db, 1, Len(db) - 1)

\* list.pop(i): the list without its i-th element.
pop(db, i) == SubSeq(db, 1, i - 1) \o SubSeq(db, i + 1, Len(db))

\* DELETE /notas/{titulo}
eliminar_nota(db, titulo) ==
    LET i == buscar_indice(db, titulo)
    IN  IF i = 0
        THEN HTTPException(db, 404, "Nota no encontrada")
        ELSE Resultado(pop(db, i), 200, "Nota eliminada exitosamente", db[i])

\* [n for n in notas if n.categoria.lower() == categoria.lower()]
RECURSIVE filtrar_categoria(_, _)
filtrar_categoria(notas, categoria) ==
    IF notas = <<>> THEN <<>>
    ELSE IF lower(Head(notas).categoria) = lower(categoria)
         THEN <<Head(notas)>> \o filtrar_categoria(Tail(notas), categoria)
         ELSE filtrar_categoria(Tail(notas), categoria)

\* [n for n in notas if n.importante == importante]
RECURSIVE filtrar_importante(_, _)
filtrar_importante(notas, importante) ==
    IF notas = <<>> THEN <<>>
    ELSE IF Head(notas).importante = importante
         THEN <<Head(notas)>> \o filtrar_importante(Tail(notas), importante)
         ELSE filtrar_importante(Tail(notas), importante)

\* GET /notas?categoria=&importante=   The query parameter categoria is a text
\* or None; importante is <<>> for None and <<b>> for the boolean b.
\* None.lower() raises AttributeError, at the first note without a category.
obtener_notas(db, categoria, importante) ==
    LET notas_filtradas == db
        con_categoria == categoria # None /\ categoria # <<>>
    IN  IF con_categoria /\ \E i \in 1..Len(notas_filtradas) : notas_filtradas[i].categoria = None
        THEN ErrorInterno(db)
        ELSE LET por_categoria == IF con_categoria
                                  THEN filtrar_categoria(notas_filtradas, categoria)
                                  ELSE notas_filtradas
                 por_importante == IF importante # <<>>
                                   THEN filtrar_importante(por_categoria, importante[1])
                                   ELSE por_categoria
             IN  ResultadoLista(db, por_importante)

\* The Python test "sub in s" on two texts.
contiene(sub, s) ==
    \E i \in 0..(Len(s) - Len(sub)) : SubSeq(s, i + 1, i + Len(sub)) = sub

\* The scan of buscar_notas over the notes from position i on.
RECURSIVE buscar_resultados(_, _, _)
buscar_resultados(db, texto_lower, i) ==
    IF i > Len(db) THEN <<>>
    ELSE IF \/ contiene(texto_lower, lower(db[i].titulo))
            \/ contiene(texto_lower, lower(db[i].contenido))
         THEN <<db[i]>> \o buscar_resultados(db, texto_lower, i + 1)
         ELSE buscar_resultados(db, texto_lower, i + 1)

\* GET /buscar/{texto} that looks for texto as written, not lower-cased.
buscar_notas_sin_lower(db, texto) ==
    ResultadoLista(db, buscar_resultados(db, texto, 1))

\* GET /buscar/{texto} that keeps its results in notas_db itself.
buscar_notas_en_sitio(db, texto) ==
    LET texto_lower == lower(texto)
    IN  ResultadoLista(buscar_resultados(db, texto_lower, 1),
                       buscar_resultados(db, texto_lower, 1))

\* GET /buscar/{texto}
buscar_notas(db, texto) ==
    LET texto_lower == lower(texto)
    IN  ResultadoLista(db, buscar_resultados(db, texto_lower, 1))

\* dict.get(clave, 0)
get(categorias, clave) ==
    IF clave \in DOMAIN categorias THEN categorias[clave] ELSE 0

\* categorias[clave] = valor
poner(categorias, clave, valor) ==
    [k \in DOMAIN categorias \cup {clave} |-> IF k = clave THEN valor ELSE categorias[k]]

\* The tally loop of obtener_estadisticas with the key lower-cased.
RECURSIVE contar_categorias_sin_caja(_, _, _)
contar_categorias_sin_caja(db, i, categorias) ==
    IF i > Len(db) THEN categorias
    ELSE contar_categorias_sin_caja(db, i + 1,
             poner(categorias, lower(db[i].categoria),
                   get(categorias, lower(db[i].categoria)) + 1))

\* The tally loop of obtener_estadisticas: the dict after the notes from
\* position i on are counted into categorias.
RECURSIVE contar_categorias(_, _, _)
contar_categorias(db, i, categorias) ==
    IF i > Len(db) THEN categorias
    ELSE contar_categorias(db, i + 1,
             poner(categorias, db[i].categoria, get(categorias, db[i].categoria) + 1))

\* GET /estadisticas
obtener_estadisticas(db) ==
    LET total_notas == Len(db)
        notas_importantes == Cardinality({ i \in 1..Len(db) : db[i].importante })
        categorias == contar_categorias(db, 1, <<>>)
    IN  [db |-> db, status_code |-> 200, detail |-> "", nota |-> Ninguna, lista |-> <<>>,
         estadisticas |-> [total_notas |-> total_notas,
                           notas_importantes |-> notas_importantes,
                           notas_normales |-> total_notas - notas_importantes,
                           categorias |-> categorias]]

\* GET /
root(db) == Resultado(db, 200, "Bienvenido a la API de Notas", Ninguna)

(* ------------------------------- state --------------------------------- *)

\* The query parameters of GET /notas, and their value in other requests.
Consulta(categoria, importante) == [categoria |-> categoria, importante |-> importante]
SinConsulta == Consulta(None, <<>>)

\* The last request served and its response.  titulo is the path parameter
\* ({titulo} or {texto}), cuerpo the body, consulta the query parameters.
Respuesta(op, titulo, cuerpo, r) ==
    [op |-> op, titulo |-> titulo, cuerpo |-> cuerpo, consulta |-> SinConsulta,
     status_code |-> r.status_code, detail |-> r.detail, nota |-> r.nota,
     lista |-> r.lista, estadisticas |-> r.estadisticas]

SinRespuesta ==
    [op |-> "none", titulo |-> <<>>, cuerpo |-> SinCuerpo, consulta |-> SinConsulta,
     status_code |-> 0, detail |-> "", nota |-> Ninguna,
     lista |-> <<>>, estadisticas |-> SinEstadisticas]

\* The values the model sends as the query parameter categoria.
CategoriasConsulta == { None, <<>>, <<"w">>, <<"W">> }

\* The texts the model searches for.
TextosBusqueda == { <<>>, <<"B">>, <<"X", "b">> }

\* The values the model sends as the query parameter importante.
ImportantesConsulta == { <<>>, <<TRUE>>, <<FALSE>> }

Init ==
    /\ notas_db = <<>>
    /\ reloj = 0
    /\ ultima = SinRespuesta
    /\ pendientes = [c \in Clientes |-> SinCuerpo]
    /\ respuestas = [c \in Clientes |-> SinRespuesta]

\* Time passes: datetime.now() reads reloj, which never goes backwards.
Tic ==
    /\ reloj < MaxReloj
    /\ reloj' = reloj + 1
    /\ UNCHANGED <<notas_db, ultima, pendientes, respuestas>>

\* A POST /notas request is served.
CrearNota(nota) ==
    /\ LET r == crear_nota(notas_db, nota, reloj)
       IN  /\ Len(r.db) <= MaxNotas
           /\ notas_db' = r.db
           /\ ultima' = Respuesta("crear", <<>>, nota, r)
    /\ UNCHANGED <<reloj, pendientes, respuestas>>

\* A GET /notas/{titulo} request is served.
ObtenerNota(titulo) ==
    /\ LET r == obtener_nota(notas_db, titulo)
       IN  /\ notas_db' = r.db
           /\ ultima' = Respuesta("obtener", titulo, SinCuerpo, r)
    /\ UNCHANGED <<reloj, pendientes, respuestas>>

\* A GET /notas request is served.
ObtenerNotas(categoria, importante) ==
    /\ LET r == obtener_notas(notas_db, categoria, importante)
       IN  /\ notas_db' = r.db
           /\ ultima' = [Respuesta("listar", <<>>, SinCuerpo, r)
                           EXCEPT !.consulta = Consulta(categoria, importante)]
    /\ UNCHANGED <<reloj, pendientes, respuestas>>

\* A GET /buscar/{texto} request is served.
BuscarNotas(texto) ==
    /\ LET r == buscar_notas(notas_db, texto)
       IN  /\ notas_db' = r.db
           /\ ultima' = Respuesta("buscar", texto, SinCuerpo, r)
    /\ UNCHANGED <<reloj, pendientes, respuestas>>

\* A GET /estadisticas request is served.
ObtenerEstadisticas ==
    /\ LET r == obtener_estadisticas(notas_db)
       IN  /\ notas_db' = r.db
           /\ ultima' = Respuesta("estadisticas", <<>>, SinCuerpo, r)
    /\ UNCHANGED <<reloj, pendientes, respuestas>>

\* A GET / request is served.
Raiz ==
    /\ LET r == root(notas_db)
       IN  /\ notas_db' = r.db
           /\ ultima' = Respuesta("raiz", <<>>, SinCuerpo, r)
    /\ UNCHANGED <<reloj, pendientes, respuestas>>

\* A PUT /notas/{titulo} request is served.
ActualizarNota(titulo, nota) ==
    /\ LET r == actualizar_nota(notas_db, titulo, nota, reloj)
       IN  /\ notas_db' = r.db
           /\ ultima' = Respuesta("actualizar", titulo, nota, r)
    /\ UNCHANGED <<reloj, pendientes, respuestas>>

\* A DELETE /notas/{titulo} request is served.
EliminarNota(titulo) ==
    /\ LET r == eliminar_nota(notas_db, titulo)
       IN  /\ notas_db' = r.db
           /\ ultima' = Respuesta("eliminar", titulo, SinCuerpo, r)
    /\ UNCHANGED <<reloj, pendientes, respuestas>>

\* The requests that write or get one note, with time passing between them.
Next ==
    \/ Tic
    \/ \E nota \in Cuerpos : CrearNota(nota)
    \/ \E titulo \in TitulosRuta : ObtenerNota(titulo)
    \/ \E titulo \in TitulosRuta, nota \in Cuerpos : ActualizarNota(titulo, nota)
    \/ \E titulo \in TitulosRuta : EliminarNota(titulo)

Spec == Init /\ [][Next]_vars

\* Every request of the API, served within one reading of the clock: the
\* handlers that only read never look at the two dates of a note.
NextLectura ==
    \/ Raiz
    \/ ObtenerEstadisticas
    \/ \E texto \in TextosBusqueda : BuscarNotas(texto)
    \/ \E categoria \in CategoriasConsulta, importante \in ImportantesConsulta :
          ObtenerNotas(categoria, importante)
    \/ \E nota \in Cuerpos : CrearNota(nota)
    \/ \E titulo \in TitulosRuta : ObtenerNota(titulo)
    \/ \E titulo \in TitulosRuta, nota \in Cuerpos : ActualizarNota(titulo, nota)
    \/ \E titulo \in TitulosRuta : EliminarNota(titulo)

SpecLectura == Init /\ [][NextLectura]_vars

(* ----------------------- concurrent POST /notas ------------------------ *)

\* Client c sends its POST /notas request: the body is parsed and the call of
\* crear_nota is scheduled on the event loop.
RecibirCrear(c, nota) ==
    /\ pendientes[c] = SinCuerpo
    /\ respuestas[c] = SinRespuesta
    /\ pendientes' = [pendientes EXCEPT ![c] = nota]
    /\ UNCHANGED <<notas_db, reloj, ultima, respuestas>>

\* The event loop runs the scheduled crear_nota call of client c; the handler
\* has no await, so it runs to its return or raise in one step.  The calls are
\* run in any order, and the first one only once every client has sent its
\* request: all the requests are in flight together.
AtenderCrear(c) ==
    /\ pendientes[c] # SinCuerpo
    /\ \A d \in Clientes : pendientes[d] # SinCuerpo \/ respuestas[d] # SinRespuesta
    /\ LET r == crear_nota(notas_db, pendientes[c], reloj)
       IN  /\ notas_db' = r.db
           /\ ultima' = Respuesta("crear", <<>>, pendientes[c], r)
           /\ respuestas' = [respuestas EXCEPT ![c] = Respuesta("crear", <<>>, pendientes[c], r)]
    /\ pendientes' = [pendientes EXCEPT ![c] = SinCuerpo]
    /\ UNCHANGED reloj

NextCarrera ==
    \/ Tic
    \/ \E c \in Clientes, nota \in Cuerpos : RecibirCrear(c, nota)
    \/ \E c \in Clientes : AtenderCrear(c)

SpecCarrera == Init /\ [][NextCarrera]_vars

(* ------------------------- vocabulary of claims ------------------------ *)

\* The error kind of a response: InvalidInput, Conflict, NotFound, or Ok.
Clase(resp) ==
    CASE resp.status_code = 400 /\ resp.detail = "El titulo es requerido" -> "InvalidInput"
      [] resp.status_code = 400 /\ resp.detail = "El contenido es requerido" -> "InvalidInput"
      [] resp.status_code = 400 /\ resp.detail = "Ya existe una nota con ese titulo" -> "Conflict"
      [] resp.status_code = 404 -> "NotFound"
      [] resp.status_code \in {200, 201} -> "Ok"
      [] OTHER -> "none"

Errores == {"InvalidInput", "Conflict", "NotFound"}

\* A text that is empty or holds only whitespace.
EnBlanco(s) == \A i \in 1..Len(s) : s[i] \in Whitespace

\* Equality of two titles under case-insensitive comparison.
MismoTitulo(s, t) == lower(s) = lower(t)

\* Every title the model sends, as a path parameter or in a body.
TodosTitulos == TitulosRuta \cup { c.titulo : c \in Cuerpos }

\* The positions of the notes of db whose title is t case-insensitively.
Posiciones(db, t) == { i \in 1..Len(db) : MismoTitulo(db[i].titulo, t) }

\* C1: no two stored notes have titles equal under case-insensitive comparison.
TitulosUnicos ==
    \A i, j \in 1..Len(notas_db) :
        i # j => ~MismoTitulo(notas_db[i].titulo, notas_db[j].titulo)

\* An update was just refused because its new title is stored, in another
\* letter case, by one of the two notes.
TitulosUnicosTestigo ==
    /\ Len(notas_db) = 2
    /\ ultima.op = "actualizar"
    /\ Clase(ultima) = "Conflict"
    /\ \E i \in 1..Len(notas_db) :
          /\ notas_db[i].titulo # ultima.cuerpo.titulo
          /\ MismoTitulo(notas_db[i].titulo, ultima.cuerpo.titulo)

\* C2: every stored note has a title and a content that are neither empty nor
\* whitespace-only.
CamposNoVacios ==
    \A i \in 1..Len(notas_db) :
        ~EnBlanco(notas_db[i].titulo) /\ ~EnBlanco(notas_db[i].contenido)

\* C3: a create, update or delete request that ends in an error leaves the
\* collection exactly as it was.
ErrorSinEfecto ==
    [][(ultima'.op \in {"crear", "actualizar", "eliminar"} /\ Clase(ultima') \in Errores)
         => notas_db' = notas_db]_vars

\* A delete of a title that is not stored was just refused with NotFound while
\* two notes are stored.
ErrorSinEfectoTestigo ==
    /\ Len(notas_db) = 2
    /\ ultima.op = "eliminar"
    /\ Clase(ultima) = "NotFound"

\* C4: of the create requests of different clients whose titles are equal
\* case-insensitively, at most one succeeds; when one succeeds, every other
\* with a valid content is refused with Conflict; and the collection holds at
\* most one note with that title.
CarreraUnSoloExito ==
    \A c, d \in Clientes :
        (/\ c # d
         /\ respuestas[c].op = "crear"
         /\ respuestas[d].op = "crear"
         /\ MismoTitulo(respuestas[c].cuerpo.titulo, respuestas[d].cuerpo.titulo))
        => /\ ~(respuestas[c].status_code = 201 /\ respuestas[d].status_code = 201)
           /\ (respuestas[c].status_code = 201 /\ ~EnBlanco(respuestas[d].cuerpo.contenido))
                 => Clase(respuestas[d]) = "Conflict"
           /\ Cardinality(Posiciones(notas_db, respuestas[c].cuerpo.titulo)) <= 1

\* Two clients sent creates with titles differing only in case, both in flight
\* before either was served; one was stored and the other refused with Conflict.
CarreraUnSoloExitoTestigo ==
    \E c, d \in Clientes :
        /\ c # d
        /\ respuestas[c].status_code = 201
        /\ Clase(respuestas[d]) = "Conflict"
        /\ respuestas[c].cuerpo.titulo # respuestas[d].cuerpo.titulo
        /\ MismoTitulo(respuestas[c].cuerpo.titulo, respuestas[d].cuerpo.titulo)
        /\ respuestas[c].nota.fecha_creacion = reloj
        /\ Len(notas_db) = 1

\* C5: create fails with InvalidInput when the title or the content is empty
\* or whitespace-only, otherwise fails with Conflict when a stored note has the
\* same title case-insensitively, and otherwise succeeds and appends the note.
CrearResultado ==
    [][(ultima'.op = "crear" /\ CrearNota(ultima'.cuerpo)) =>
         LET nota == ultima'.cuerpo
         IN
           IF EnBlanco(nota.titulo) \/ EnBlanco(nota.contenido)
           THEN Clase(ultima') = "InvalidInput"
           ELSE IF Posiciones(notas_db, nota.titulo) # {}
           THEN Clase(ultima') = "Conflict"
           ELSE /\ ultima'.status_code = 201
                /\ Len(notas_db') = Len(notas_db) + 1
                /\ SubSeq(notas_db', 1, Len(notas_db)) = notas_db
                /\ notas_db'[Len(notas_db')].titulo = nota.titulo
                /\ notas_db'[Len(notas_db')].contenido = nota.contenido]_vars

\* A create was refused with Conflict for a title stored in another letter case.
CrearResultadoTestigo ==
    /\ ultima.op = "crear"
    /\ Clase(ultima) = "Conflict"
    /\ \E i \in 1..Len(notas_db) :
          /\ notas_db[i].titulo # ultima.cuerpo.titulo
          /\ MismoTitulo(notas_db[i].titulo, ultima.cuerpo.titulo)

\* The position of the note an update or a delete of title t targets: the
\* first one whose title is t case-insensitively.
Objetivo(db, t) ==
    CHOOSE i \in Posiciones(db, t) : \A k \in Posiciones(db, t) : i <= k

\* C6: an update that targets a stored note fails with Conflict when the new
\* title is, case-insensitively, the title of a different stored note, and
\* succeeds when the new title is the target's own title in any letter case.
ActualizarTitulo ==
    [][(/\ ultima'.op = "actualizar"
        /\ ActualizarNota(ultima'.titulo, ultima'.cuerpo)
        /\ Posiciones(notas_db, ultima'.titulo) # {}) =>
           LET titulo == ultima'.titulo
               nota == ultima'.cuerpo
               i == Objetivo(notas_db, titulo)
           IN  /\ (\E j \in Posiciones(notas_db, nota.titulo) : j # i)
                     => Clase(ultima') = "Conflict"
               /\ MismoTitulo(nota.titulo, notas_db[i].titulo)
                     => (ultima'.status_code = 200 /\ notas_db'[i].titulo = nota.titulo)]_vars

\* An update just gave a note its own title in another letter case, with a
\* second note stored.
ActualizarTituloTestigo ==
    /\ ultima.op = "actualizar"
    /\ ultima.status_code = 200
    /\ Len(notas_db) = 2
    /\ ultima.titulo # ultima.cuerpo.titulo
    /\ MismoTitulo(ultima.titulo, ultima.cuerpo.titulo)
    /\ \E i \in 1..Len(notas_db) : notas_db[i] = ultima.nota

\* C7: right after a successful create, the new note is the last element of
\* the collection, it carries the fields of the request and equal timestamps,
\* and a get with its title in any letter case returns it.
CrearLuegoObtener ==
    (ultima.op = "crear" /\ ultima.status_code = 201) =>
        /\ Len(notas_db) >= 1
        /\ notas_db[Len(notas_db)] = ultima.nota
        /\ ultima.nota.titulo = ultima.cuerpo.titulo
        /\ ultima.nota.contenido = ultima.cuerpo.contenido
        /\ ultima.nota.autor = ultima.cuerpo.autor
        /\ ultima.nota.categoria = ultima.cuerpo.categoria
        /\ ultima.nota.importante = ultima.cuerpo.importante
        /\ ultima.nota.fecha_creacion = ultima.nota.fecha_actualizacion
        /\ \A t \in TodosTitulos :
              MismoTitulo(t, ultima.cuerpo.titulo) =>
                /\ obtener_nota(notas_db, t).status_code = 200
                /\ obtener_nota(notas_db, t).nota = ultima.nota

\* A note was just created behind another one, under a title that is also
\* sent in another letter case.
CrearLuegoObtenerTestigo ==
    /\ ultima.op = "crear"
    /\ ultima.status_code = 201
    /\ Len(notas_db) = 2
    /\ \E t \in TodosTitulos :
          t # ultima.cuerpo.titulo /\ MismoTitulo(t, ultima.cuerpo.titulo)

ActualizarMarco ==
    [][(/\ ultima'.op = "actualizar"
        /\ ActualizarNota(ultima'.titulo, ultima'.cuerpo)
        /\ ultima'.status_code = 200) =>
           /\ Posiciones(notas_db, ultima'.titulo) # {}
           /\ LET i == Objetivo(notas_db, ultima'.titulo)
              IN  /\ Len(notas_db') = Len(notas_db)
                  /\ \A k \in 1..Len(notas_db) : k # i => notas_db'[k] = notas_db[k]
                  /\ notas_db'[i] = ultima'.nota
                  /\ notas_db'[i].fecha_creacion = notas_db[i].fecha_creacion]_vars

\* An update at a later time just renamed the first of two notes.
ActualizarMarcoTestigo ==
    /\ ultima.op = "actualizar"
    /\ ultima.status_code = 200
    /\ Len(notas_db) = 2
    /\ notas_db[1] = ultima.nota
    /\ ~MismoTitulo(ultima.titulo, ultima.nota.titulo)
    /\ ultima.nota.fecha_creacion < ultima.nota.fecha_actualizacion

\* created_at <= updated_at for every stored note.
FechasEnOrden ==
    \A i \in 1..Len(notas_db) :
        notas_db[i].fecha_creacion <= notas_db[i].fecha_actualizacion

\* C10: with a clock that never goes backwards, created_at <= updated_at for
\* every stored note in every state, and a successful update never lowers the
\* target's updated_at.
FechasMonotonas ==
    /\ []FechasEnOrden
    /\ [][(/\ ultima'.op = "actualizar"
            /\ ActualizarNota(ultima'.titulo, ultima'.cuerpo)
            /\ ultima'.status_code = 200) =>
              \A i \in Posiciones(notas_db, ultima'.titulo) :
                  notas_db'[i].fecha_actualizacion >= notas_db[i].fecha_actualizacion]_vars

\* A note created at an earlier clock reading was just updated.
FechasMonotonasTestigo ==
    /\ ultima.op = "actualizar"
    /\ ultima.status_code = 200
    /\ ultima.nota.fecha_creacion < ultima.nota.fecha_actualizacion
    /\ ultima.nota.fecha_actualizacion = reloj

\* The notes of db that satisfy the filters of the query q that are present.
Filtradas(db, q) ==
    LET Cumple(n) ==
            /\ q.categoria # None =>
                  (n.categoria # None /\ lower(n.categoria) = lower(q.categoria))
            /\ q.importante # <<>> => n.importante = q.importante[1]
    IN  SelectSeq(db, Cumple)

\* C11: list answers, in insertion order, exactly the stored notes that satisfy
\* every filter that is supplied, and the whole collection when none is.
ListarFiltra ==
    ultima.op = "listar" =>
        /\ ultima.status_code = 200
        /\ ultima.lista = Filtradas(notas_db, ultima.consulta)

\* The text t occurs in the text s when letter case is ignored: s is some
\* text, then t, then some text.
Aparece(t, s) ==
    \E i, j \in 0..Len(s) :
        /\ i <= j
        /\ j - i = Len(t)
        /\ \A k \in 1..Len(t) : LowerChar(s[i + k]) = LowerChar(t[k])

\* The notes of db whose title or content holds the text t.
Encontradas(db, t) ==
    LET Cumple(n) == Aparece(t, n.titulo) \/ Aparece(t, n.contenido)
    IN  SelectSeq(db, Cumple)

\* C12: search answers exactly the stored notes whose title or content holds
\* the text as a case-insensitive substring, and the whole collection for the
\* empty text.
BuscarEncuentra ==
    ultima.op = "buscar" =>
        /\ ultima.status_code = 200
        /\ ultima.lista = Encontradas(notas_db, ultima.titulo)
        /\ ultima.titulo = <<>> => ultima.lista = notas_db

\* A search with an upper-case text of two letters just found one of the two
\* stored notes, by its lower-case content, and left the other out.
BuscarEncuentraTestigo ==
    /\ ultima.op = "buscar"
    /\ ultima.titulo = <<"X", "b">>
    /\ Len(notas_db) = 2
    /\ Len(ultima.lista) = 1
    /\ ultima.lista[1].contenido = <<"x", "b">>

\* The sum of the counts of the category map f over the keys in S.
RECURSIVE SumaCuentas(_, _)
SumaCuentas(f, S) ==
    IF S = {} THEN 0
    ELSE LET k == CHOOSE x \in S : TRUE
         IN  f[k] + SumaCuentas(f, S \ {k})

\* C13: stats reports the number of stored notes, the number of notes that
\* list(important=true) returns, their difference, and a category map whose
\* keys are the categories as written, each with the number of notes that
\* carry exactly it, the counts summing to the total.
EstadisticasCuentan ==
    ultima.op = "estadisticas" =>
        LET e == ultima.estadisticas
        IN  /\ ultima.status_code = 200
            /\ e.total_notas = Len(notas_db)
            /\ e.notas_importantes = Len(obtener_notas(notas_db, None, <<TRUE>>).lista)
            /\ e.notas_normales = e.total_notas - e.notas_importantes
            /\ DOMAIN e.categorias = { notas_db[i].categoria : i \in 1..Len(notas_db) }
            /\ \A c \in DOMAIN e.categorias :
                  e.categorias[c] =
                      Cardinality({ i \in 1..Len(notas_db) : notas_db[i].categoria = c })
            /\ SumaCuentas(e.categorias, DOMAIN e.categorias) = e.total_notas

\* Stats were just computed over two important notes whose categories differ
\* only in letter case.
EstadisticasCuentanTestigo ==
    /\ ultima.op = "estadisticas"
    /\ ultima.estadisticas.total_notas = 2
    /\ ultima.estadisticas.notas_importantes = 2
    /\ DOMAIN ultima.estadisticas.categorias = { <<"w">>, <<"W">> }

\* The requests that only read.
Lecturas == {"listar", "obtener", "buscar", "estadisticas", "raiz"}

\* C14: a list, get, search, stats or root request, whatever its arguments and
\* its outcome, leaves the collection exactly as it was.
LecturaSinEfecto ==
    [][ultima'.op \in Lecturas => notas_db' = notas_db]_vars

\* A get of a title that is not stored just failed while two notes are stored.
LecturaSinEfectoTestigo ==
    /\ ultima.op = "obtener"
    /\ ultima.status_code = 404
    /\ Len(notas_db) = 2

\* C15: right after a successful update to a title that differs
\* case-insensitively from the old one, a get with the old title is NotFound,
\* a get with the new title returns the updated note, and a valid create with
\* the old title would succeed.
ActualizarLiberaTitulo ==
    (/\ ultima.op = "actualizar"
     /\ ultima.status_code = 200
     /\ ~MismoTitulo(ultima.titulo, ultima.cuerpo.titulo)) =>
        /\ Clase(obtener_nota(notas_db, ultima.titulo)) = "NotFound"
        /\ obtener_nota(notas_db, ultima.cuerpo.titulo).status_code = 200
        /\ obtener_nota(notas_db, ultima.cuerpo.titulo).nota = ultima.nota
        /\ ultima.nota.titulo = ultima.cuerpo.titulo
        /\ \A nota \in Cuerpos :
              (/\ MismoTitulo(nota.titulo, ultima.titulo)
               /\ ~EnBlanco(nota.titulo)
               /\ ~EnBlanco(nota.contenido))
              => crear_nota(notas_db, nota, reloj).status_code = 201

\* An update just renamed one of two stored notes to a title that is not
\* blank and differs from the old one.
ActualizarLiberaTituloTestigo ==
    /\ ultima.op = "actualizar"
    /\ ultima.status_code = 200
    /\ ~MismoTitulo(ultima.titulo, ultima.cuerpo.titulo)
    /\ ~EnBlanco(ultima.cuerpo.titulo)
    /\ Len(notas_db) = 2
====
